---- MODULE Spec2Model ----
(***************************************************************************)
(* LEDC PWM channel driver (src/src/ledc/channel.rs).                      *)
(*                                                                         *)
(* One Channel is constructed (Channel::new) for a speed domain and a      *)
(* channel number; the caller then invokes configure, set_duty and         *)
(* configure_hw on it in any order, with any timer and any duty fraction.  *)
(* The peripheral is the register block of the 16 channel slots plus the   *)
(* output pin owned by the Channel.  Every hardware access a call makes is *)
(* appended, in program order, to the access log of that call.             *)
(***************************************************************************)
EXTENDS Integers, Sequences, FiniteSets, TLC

\* ------------------------------------------------------------------ bounds
\* Spec: timers report a duty resolution of 1..MaxRes bits.
MaxRes == 2
\* Spec: duty fractions are the multiples of 2^-FracBits from just below 0 to
\* just above 1.
FracBits == 1
\* Spec: timers have the numbers 0..MaxTimerNum.
MaxTimerNum == 1
\* DutySpec: timers report a duty resolution of 1..MaxDutyRes bits.
MaxDutyRes == 8
\* DutySpec: duty fractions are the multiples of 2^-DutyFracBits.
DutyFracBits == 2

\* ------------------------------------------------------------------ types
\* Option<T>: None is the empty sequence, Some(x) the one-element sequence.
None == <<>>
Some(x) == <<x>>
Unwrap(o) == o[1]
Option(S) == {None} \cup {Some(x) : x \in S}

HighSpeed == "HighSpeed"
LowSpeed == "LowSpeed"
Speeds == {HighSpeed, LowSpeed}

\* enum Number { Channel0 .. Channel7 }
Number == 0..7

\* enum Error { Duty, Timer, Channel } and the Ok(()) result
Ok == "Ok"
ErrDuty == "Duty"
ErrTimer == "Timer"
ErrChannel == "Channel"

Slots == Speeds \X Number

RECURSIVE Pow2(_)
Pow2(n) == IF n = 0 THEN 1 ELSE 2 * Pow2(n - 1)

\* What a `&dyn TimerIFace<S>` answers: is_configured(), get_duty() (None or
\* the resolution in bits) and get_number().  The three are independent
\* answers of a trait object.
TimerIFace(res, nums) == [configured : BOOLEAN, duty : Option(res), number : nums]

\* ------------------------------------------------------------------ f32
\* A finite f32 is num * 2^(-exp) with num odd or zero; NaN is a value too.
RECURSIVE f32_norm(_, _)
f32_norm(num, exp) ==
    IF num = 0 THEN [cls |-> "fin", num |-> 0, exp |-> 0]
    ELSE IF num % 2 = 0 THEN f32_norm(num \div 2, exp - 1)
    ELSE [cls |-> "fin", num |-> num, exp |-> exp]

NaN == [cls |-> "nan", num |-> 0, exp |-> 0]

\* `x as f32` for a u32 x below 2^24 (exact).
f32_from_u32(x) == f32_norm(x, 0)

\* f32 multiplication; the products of the model have at most 24 significant
\* bits, so no rounding takes place.
f32_mul(a, b) ==
    IF a.cls = "nan" \/ b.cls = "nan" THEN NaN
    ELSE f32_norm(a.num * b.num, a.exp + b.exp)

\* `a > 1.0`: false for NaN.
f32_gt_one(a) ==
    /\ a.cls = "fin"
    /\ a.num > 0
    /\ IF a.exp >= 0 THEN a.num > Pow2(a.exp) ELSE TRUE

\* Mutant of f32_as_u32: a negative value cast to its truncated magnitude.
f32_as_u32_magnitude(a) ==
    IF a.cls = "nan" \/ a.num = 0 THEN 0
    ELSE LET m == IF a.num < 0 THEN -a.num ELSE a.num
         IN IF a.exp >= 0 THEN m \div Pow2(a.exp) ELSE m * Pow2(-a.exp)

\* `a as u32`: NaN and negative values give 0, the rest is truncated.
f32_as_u32(a) ==
    IF a.cls = "nan" \/ a.num <= 0 THEN 0
    ELSE IF a.exp >= 0 THEN a.num \div Pow2(a.exp)
    ELSE a.num * Pow2(-a.exp)

F32_1_0 == f32_norm(1, 0)
F32_0_5 == f32_norm(1, 1)

\* The f32 nearest to 0.01: 10737418 * 2^-30.
F32_0_01 == f32_norm(10737418, 30)

\* The duty fractions a caller passes: the multiples of 2^-bits from -2^-bits
\* to 1 + 2^-bits, the f32 nearest to 0.01, and NaN.
FractionsOf(bits) ==
    { f32_norm(n, bits) : n \in (-1)..(Pow2(bits) + 1) } \cup {F32_0_01, NaN}

\* ------------------------------------------------------------------ hardware
\* Reset value of one channel slot's registers.
ResetSlot ==
    [ hpoint |-> 0,
      conf0  |-> [sig_out_en |-> 0, timer_sel |-> 0, para_up |-> 0],
      conf1  |-> [duty_start |-> 0, duty_inc |-> 0, duty_num |-> 0,
                  duty_cycle |-> 0, duty_scale |-> 0],
      duty   |-> 0 ]

NoSignal == <<"none", 0>>

\* OutputSignal::LEDC_HS_SIG_n / LEDC_LS_SIG_n
LEDC_HS_SIG(n) == <<"LEDC_HS_SIG", n>>
LEDC_LS_SIG(n) == <<"LEDC_LS_SIG", n>>

\* One logged hardware access.
Access(op, slot, val, sig) == [op |-> op, slot |-> slot, val |-> val, sig |-> sig]

\* The hardware as one call sees it: the register block, the pin, the log of
\* the accesses the call has made so far and the duty values it has handed
\* to set_duty_hw.
HwOf(r, p) == [regs |-> r, pin |-> p, log |-> <<>>, handed |-> <<>>]

\* Mutant of set_channel: timer 0 selected whatever the timer's number.
set_channel_selects_zero(hw, slot, channel_number) ==
    [hw EXCEPT
        !.regs[slot].hpoint = 0,
        !.regs[slot].conf0 = [@ EXCEPT !.sig_out_en = 1, !.timer_sel = 0],
        !.regs[slot].conf1 = [duty_start |-> 1, duty_inc |-> 1, duty_num |-> 1,
                              duty_cycle |-> 1, duty_scale |-> 0],
        !.log = @ \o << Access("hpoint.write", slot, 0, NoSignal),
                        Access("conf0.modify.timer_sel", slot, 0, NoSignal),
                        Access("conf1.write", slot, 1, NoSignal) >>]

\* Mutant of set_channel: the selection register programmed before hpoint.
set_channel_selection_first(hw, slot, channel_number) ==
    [hw EXCEPT
        !.regs[slot].hpoint = 0,
        !.regs[slot].conf0 = [@ EXCEPT !.sig_out_en = 1, !.timer_sel = channel_number],
        !.regs[slot].conf1 = [duty_start |-> 1, duty_inc |-> 1, duty_num |-> 1,
                              duty_cycle |-> 1, duty_scale |-> 0],
        !.log = @ \o << Access("conf0.modify.timer_sel", slot, channel_number, NoSignal),
                        Access("hpoint.write", slot, 0, NoSignal),
                        Access("conf1.write", slot, 1, NoSignal) >>]

\* set_channel!: hpoint written 0, conf0 modified (output enable and timer
\* selector, the other conf0 bits kept), conf1 written with the fixed ramp.
set_channel(hw, slot, channel_number) ==
    [hw EXCEPT
        !.regs[slot].hpoint = 0,
        !.regs[slot].conf0 = [@ EXCEPT !.sig_out_en = 1, !.timer_sel = channel_number],
        !.regs[slot].conf1 = [duty_start |-> 1, duty_inc |-> 1, duty_num |-> 1,
                              duty_cycle |-> 1, duty_scale |-> 0],
        !.log = @ \o << Access("hpoint.write", slot, 0, NoSignal),
                        Access("conf0.modify.timer_sel", slot, channel_number, NoSignal),
                        Access("conf1.write", slot, 1, NoSignal) >>]

\* Mutant of Shl4: a shift by three bits.
Shl3(duty) == (duty % Pow2(29)) * 8

\* `duty << 4` on a u32: the top four bits are shifted out.
Shl4(duty) == (duty % Pow2(28)) * 16

\* Mutant of update_channel: para_up set in the conf0 register of channel 0
\* whatever the channel.
update_channel_of_zero(hw, num) ==
    [hw EXCEPT
        !.regs[<<LowSpeed, 0>>].conf0.para_up = 1,
        !.log = Append(@, Access("conf0.modify.para_up", <<LowSpeed, 0>>, 1, NoSignal))]

\* Mutant of set_duty_reg: the duty write followed by setting para_up.
set_duty_reg_commits(hw, slot, duty) ==
    [hw EXCEPT
        !.regs[slot].duty = Shl4(duty),
        !.regs[slot].conf0.para_up = 1,
        !.log = Append(@, Access("duty.write", slot, Shl4(duty), NoSignal))]

\* Mutant of set_duty_reg: the shifted duty added to the register's value.
set_duty_reg_accumulate(hw, slot, duty) ==
    [hw EXCEPT
        !.regs[slot].duty = @ + Shl4(duty),
        !.log = Append(@, Access("duty.write", slot, hw.regs[slot].duty + Shl4(duty), NoSignal))]

\* set_duty!: the duty register written with duty << 4.
set_duty_reg(hw, slot, duty) ==
    [hw EXCEPT
        !.regs[slot].duty = Shl4(duty),
        !.log = Append(@, Access("duty.write", slot, Shl4(duty), NoSignal))]

\* update_channel!: para_up set in the low-speed slot's conf0.
update_channel(hw, num) ==
    [hw EXCEPT
        !.regs[<<LowSpeed, num>>].conf0.para_up = 1,
        !.log = Append(@, Access("conf0.modify.para_up", <<LowSpeed, num>>, 1, NoSignal))]

\* OutputPin::set_to_push_pull_output
set_to_push_pull_output(hw, slot) ==
    [hw EXCEPT
        !.pin.mode = "push_pull",
        !.log = Append(@, Access("pin.set_to_push_pull_output", slot, 0, NoSignal))]

\* OutputPin::connect_peripheral_to_output
connect_peripheral_to_output(hw, slot, sig) ==
    [hw EXCEPT
        !.pin.signal = sig,
        !.log = Append(@, Access("pin.connect_peripheral_to_output", slot, 0, sig))]

\* ---------------------------------------------------------------- ChannelHW
\* Mutant of hs_arm: every arm connects the pin to the signal of channel 0.
hs_arm_signal_zero(hw, num, sig_num, channel_number) ==
    connect_peripheral_to_output(
        set_channel(hw, <<HighSpeed, num>>, channel_number),
        <<HighSpeed, num>>, LEDC_HS_SIG(0))

\* Mutant of hs_arm: the low-speed commit pasted into the high-speed arm.
hs_arm_with_commit(hw, num, sig_num, channel_number) ==
    connect_peripheral_to_output(
        update_channel(set_channel(hw, <<HighSpeed, num>>, channel_number), num),
        <<HighSpeed, num>>, LEDC_HS_SIG(sig_num))

\* One arm of Channel<HighSpeed>::configure_hw:
\*   set_channel!(self, h, N, channel_number); connect(LEDC_HS_SIG_N)
hs_arm(hw, num, sig_num, channel_number) ==
    connect_peripheral_to_output(
        set_channel(hw, <<HighSpeed, num>>, channel_number),
        <<HighSpeed, num>>, LEDC_HS_SIG(sig_num))

\* Mutant of ls_arm: the commit issued before the channel registers are set.
ls_arm_commit_first(hw, num, upd_num, sig_num, channel_number) ==
    connect_peripheral_to_output(
        set_channel(update_channel(hw, upd_num), <<LowSpeed, num>>, channel_number),
        <<LowSpeed, num>>, LEDC_LS_SIG(sig_num))

\* Mutant of ls_arm: the commit issued after the pin is connected.
ls_arm_commit_last(hw, num, upd_num, sig_num, channel_number) ==
    update_channel(
        connect_peripheral_to_output(
            set_channel(hw, <<LowSpeed, num>>, channel_number),
            <<LowSpeed, num>>, LEDC_LS_SIG(sig_num)),
        upd_num)

\* One arm of Channel<LowSpeed>::configure_hw:
\*   set_channel!(self, l, N, channel_number); update_channel!(self, N);
\*   connect(LEDC_LS_SIG_N)
ls_arm(hw, num, upd_num, sig_num, channel_number) ==
    connect_peripheral_to_output(
        update_channel(set_channel(hw, <<LowSpeed, num>>, channel_number), upd_num),
        <<LowSpeed, num>>, LEDC_LS_SIG(sig_num))

\* Channel<HighSpeed>::configure_hw
configure_hw_HighSpeed(self, hw) ==
    IF self.timer = None THEN [res |-> ErrTimer, hw |-> hw]
    ELSE LET timer == Unwrap(self.timer) IN
    IF ~timer.configured THEN [res |-> ErrTimer, hw |-> hw]
    ELSE LET h1 == set_to_push_pull_output(hw, <<HighSpeed, self.number>>)
             channel_number == timer.number
             h2 ==
                CASE self.number = 0 -> hs_arm(h1, 0, 0, channel_number)
                  [] self.number = 1 -> hs_arm(h1, 1, 1, channel_number)
                  [] self.number = 2 -> hs_arm(h1, 2, 2, channel_number)
                  [] self.number = 3 -> hs_arm(h1, 3, 3, channel_number)
                  [] self.number = 4 -> hs_arm(h1, 4, 4, channel_number)
                  [] self.number = 5 -> hs_arm(h1, 5, 5, channel_number)
                  [] self.number = 6 -> hs_arm(h1, 6, 6, channel_number)
                  [] self.number = 7 -> hs_arm(h1, 7, 7, channel_number)
         IN [res |-> Ok, hw |-> h2]

\* Channel<HighSpeed>::set_duty_hw
set_duty_hw_HighSpeed(self, hw, duty) ==
    LET h1 == [hw EXCEPT !.handed = Append(@, duty)] IN
    CASE self.number = 0 -> set_duty_reg(h1, <<HighSpeed, 0>>, duty)
      [] self.number = 1 -> set_duty_reg(h1, <<HighSpeed, 1>>, duty)
      [] self.number = 2 -> set_duty_reg(h1, <<HighSpeed, 2>>, duty)
      [] self.number = 3 -> set_duty_reg(h1, <<HighSpeed, 3>>, duty)
      [] self.number = 4 -> set_duty_reg(h1, <<HighSpeed, 4>>, duty)
      [] self.number = 5 -> set_duty_reg(h1, <<HighSpeed, 5>>, duty)
      [] self.number = 6 -> set_duty_reg(h1, <<HighSpeed, 6>>, duty)
      [] self.number = 7 -> set_duty_reg(h1, <<HighSpeed, 7>>, duty)

\* Channel<LowSpeed>::configure_hw
configure_hw_LowSpeed(self, hw) ==
    IF self.timer = None THEN [res |-> ErrTimer, hw |-> hw]
    ELSE LET timer == Unwrap(self.timer) IN
    IF ~timer.configured THEN [res |-> ErrTimer, hw |-> hw]
    ELSE LET h1 == set_to_push_pull_output(hw, <<LowSpeed, self.number>>)
             channel_number == timer.number
             h2 ==
                CASE self.number = 0 -> ls_arm(h1, 0, 0, 0, channel_number)
                  [] self.number = 1 -> ls_arm(h1, 1, 1, 1, channel_number)
                  [] self.number = 2 -> ls_arm(h1, 2, 2, 2, channel_number)
                  [] self.number = 3 -> ls_arm(h1, 3, 3, 3, channel_number)
                  [] self.number = 4 -> ls_arm(h1, 4, 4, 4, channel_number)
                  [] self.number = 5 -> ls_arm(h1, 5, 5, 5, channel_number)
                  [] self.number = 6 -> ls_arm(h1, 6, 6, 6, channel_number)
                  [] self.number = 7 -> ls_arm(h1, 7, 7, 7, channel_number)
         IN [res |-> Ok, hw |-> h2]

\* Channel<LowSpeed>::set_duty_hw
set_duty_hw_LowSpeed(self, hw, duty) ==
    LET h1 == [hw EXCEPT !.handed = Append(@, duty)] IN
    CASE self.number = 0 -> set_duty_reg(h1, <<LowSpeed, 0>>, duty)
      [] self.number = 1 -> set_duty_reg(h1, <<LowSpeed, 1>>, duty)
      [] self.number = 2 -> set_duty_reg(h1, <<LowSpeed, 2>>, duty)
      [] self.number = 3 -> set_duty_reg(h1, <<LowSpeed, 3>>, duty)
      [] self.number = 4 -> set_duty_reg(h1, <<LowSpeed, 4>>, duty)
      [] self.number = 5 -> set_duty_reg(h1, <<LowSpeed, 5>>, duty)
      [] self.number = 6 -> set_duty_reg(h1, <<LowSpeed, 6>>, duty)
      [] self.number = 7 -> set_duty_reg(h1, <<LowSpeed, 7>>, duty)

\* Mutant of configure_hw: a Channel without a timer passes as configured.
configure_hw_unbound_ok(self, hw) ==
    IF self.timer = None THEN [res |-> Ok, hw |-> hw]
    ELSE IF self.speed = HighSpeed THEN configure_hw_HighSpeed(self, hw)
    ELSE configure_hw_LowSpeed(self, hw)

\* The ChannelHW implementation the Channel's speed type parameter selects.
configure_hw(self, hw) ==
    IF self.speed = HighSpeed THEN configure_hw_HighSpeed(self, hw)
    ELSE configure_hw_LowSpeed(self, hw)

set_duty_hw(self, hw, duty) ==
    IF self.speed = HighSpeed THEN set_duty_hw_HighSpeed(self, hw, duty)
    ELSE set_duty_hw_LowSpeed(self, hw, duty)

\* ------------------------------------------------------------- ChannelIFace
\* Mutant of duty_exp_of: the two error kinds swapped.
duty_exp_of_swapped(self) ==
    IF self.timer # None
    THEN IF Unwrap(self.timer).duty # None
         THEN [res |-> Ok, duty_exp |-> Unwrap(Unwrap(self.timer).duty)]
         ELSE [res |-> ErrChannel, duty_exp |-> 0]
    ELSE [res |-> ErrTimer, duty_exp |-> 0]

\* Channel::set_duty, the lookup of duty_exp: Channel error when no timer is
\* bound, Timer error when the bound timer's get_duty() is None.
duty_exp_of(self) ==
    IF self.timer # None
    THEN IF Unwrap(self.timer).duty # None
         THEN [res |-> Ok, duty_exp |-> Unwrap(Unwrap(self.timer).duty)]
         ELSE [res |-> ErrTimer, duty_exp |-> 0]
    ELSE [res |-> ErrChannel, duty_exp |-> 0]

\* Mutant of duty_value_of: the range taken as 2^duty_exp - 1.
duty_value_of_max(duty_exp, duty_pct) ==
    LET duty_range == Pow2(duty_exp) - 1
    IN f32_as_u32(f32_mul(f32_from_u32(duty_range), duty_pct))

\* Channel::set_duty: duty_value = (2_u32.pow(duty_exp) as f32 * duty_pct) as u32
duty_value_of(duty_exp, duty_pct) ==
    LET duty_range == Pow2(duty_exp)
    IN f32_as_u32(f32_mul(f32_from_u32(duty_range), duty_pct))

\* Mutant of duty_rejected: the zero check forgotten.
duty_rejected_no_zero(duty_value, duty_pct) ==
    f32_gt_one(duty_pct)

\* Channel::set_duty: `duty_value == 0 || duty_pct > 1.0`
duty_rejected(duty_value, duty_pct) ==
    duty_value = 0 \/ f32_gt_one(duty_pct)

\* Mutant of set_duty: the register written before the value is validated.
set_duty_writes_first(self, hw, duty_pct) ==
    LET e == duty_exp_of(self) IN
    IF e.res # Ok THEN [res |-> e.res, hw |-> hw]
    ELSE LET duty_value == duty_value_of(e.duty_exp, duty_pct)
             written == set_duty_hw(self, hw, duty_value)
         IN IF duty_rejected(duty_value, duty_pct)
            THEN [res |-> ErrDuty, hw |-> written]
            ELSE [res |-> Ok, hw |-> written]

\* Channel::set_duty
set_duty(self, hw, duty_pct) ==
    LET e == duty_exp_of(self) IN
    IF e.res # Ok THEN [res |-> e.res, hw |-> hw]
    ELSE LET duty_value == duty_value_of(e.duty_exp, duty_pct)
         IN IF duty_rejected(duty_value, duty_pct)
            THEN [res |-> ErrDuty, hw |-> hw]
            ELSE [res |-> Ok, hw |-> set_duty_hw(self, hw, duty_value)]

\* Mutant of configure: the previous binding restored when a step fails.
configure_rollback(self, hw, config) ==
    LET bound == [self EXCEPT !.timer = Some(config.timer)]
        r1 == set_duty(bound, hw, config.duty_pct)
        r2 == configure_hw(bound, r1.hw)
    IN IF r1.res # Ok THEN [self |-> self, res |-> r1.res, hw |-> r1.hw]
       ELSE IF r2.res # Ok THEN [self |-> self, res |-> r2.res, hw |-> r2.hw]
       ELSE [self |-> bound, res |-> Ok, hw |-> r2.hw]

\* Mutant of configure: the result of configure_hw dropped.
configure_ignores_hw(self, hw, config) ==
    LET bound == [self EXCEPT !.timer = Some(config.timer)]
        r1 == set_duty(bound, hw, config.duty_pct)
        r2 == configure_hw(bound, r1.hw)
    IN IF r1.res # Ok THEN [self |-> bound, res |-> r1.res, hw |-> r1.hw]
       ELSE [self |-> bound, res |-> Ok, hw |-> r2.hw]

\* Channel::configure: the binding is stored, then set_duty(..)?, then
\* configure_hw()?.
configure(self, hw, config) ==
    LET bound == [self EXCEPT !.timer = Some(config.timer)]
        r1 == set_duty(bound, hw, config.duty_pct)
        r2 == configure_hw(bound, r1.hw)
    IN IF r1.res # Ok THEN [self |-> bound, res |-> r1.res, hw |-> r1.hw]
       ELSE IF r2.res # Ok THEN [self |-> bound, res |-> r2.res, hw |-> r2.hw]
       ELSE [self |-> bound, res |-> Ok, hw |-> r2.hw]

\* ------------------------------------------------------------------ state
VARIABLES
    chan,   \* the Channel: speed domain, number, timer binding
    regs,   \* the LEDC register block, one record per slot
    pin,    \* the output pin owned by the Channel
    last,   \* the last call: operation, result, hardware accesses made,
            \* duty values handed to set_duty_hw
    configure_called    \* whether configure has ever been called on the Channel

vars == <<chan, regs, pin, last, configure_called>>

\* The record of one call: the operation, the timer passed to it (None where
\* it takes none), its result, and what it did to the hardware.
Call(op, timer, res, hw) ==
    [op |-> op, timer |-> timer, res |-> res, log |-> hw.log, handed |-> hw.handed]

\* Channel::new(number, output_pin): no timer bound, no hardware access.
New(speeds, numbers) ==
    /\ chan \in [speed : speeds, number : numbers, timer : {None}]
    /\ regs = [s \in Slots |-> ResetSlot]
    /\ pin = [mode |-> "unset", signal |-> NoSignal]
    /\ last = Call("new", None, Ok, HwOf(regs, pin))
    /\ configure_called = FALSE

\* A call of channel.configure(config).
Configure(config) ==
    \E r \in {configure(chan, HwOf(regs, pin), config)} :
       /\ chan' = r.self
       /\ regs' = r.hw.regs
       /\ pin' = r.hw.pin
       /\ last' = Call("configure", Some(config.timer), r.res, r.hw)
       /\ configure_called' = TRUE

\* A call of channel.set_duty(duty_pct); `&self`: the Channel is not changed.
SetDuty(duty_pct) ==
    \E r \in {set_duty(chan, HwOf(regs, pin), duty_pct)} :
       /\ regs' = r.hw.regs
       /\ pin' = r.hw.pin
       /\ last' = Call("set_duty", None, r.res, r.hw)
       /\ UNCHANGED <<chan, configure_called>>

\* A call of channel.configure_hw() (ChannelHW is a public trait).
ConfigureHw ==
    \E r \in {configure_hw(chan, HwOf(regs, pin))} :
       /\ regs' = r.hw.regs
       /\ pin' = r.hw.pin
       /\ last' = Call("configure_hw", None, r.res, r.hw)
       /\ UNCHANGED <<chan, configure_called>>

\* ------------------------------------------------------------------ Spec
\* Any sequence of calls on a Channel of either speed domain, with timers
\* giving every combination of answers.
Timers == TimerIFace(1..MaxRes, 0..MaxTimerNum)
Fractions == FractionsOf(FracBits)
\* config::Config { timer, duty_pct }
Config == [timer : Timers, duty_pct : Fractions]

Init == New(Speeds, {0, 7})

Next ==
    \/ \E config \in Config : Configure(config)
    \/ \E duty_pct \in Fractions : SetDuty(duty_pct)
    \/ ConfigureHw

Spec == Init /\ [][Next]_vars

\* ------------------------------------------------------------------ DutySpec
\* The duty computation over a wider range of resolutions, with configured
\* timers that report their resolution, on one Channel per speed domain.
DutyTimers == [configured : {TRUE}, duty : {Some(r) : r \in 1..MaxDutyRes}, number : {0}]
DutyFractions == FractionsOf(DutyFracBits)
DutyConfig == [timer : DutyTimers, duty_pct : DutyFractions]

DutyInit == New(Speeds, {0})

DutyNext ==
    \/ \E config \in DutyConfig : Configure(config)
    \/ \E duty_pct \in DutyFractions : SetDuty(duty_pct)

DutySpec == DutyInit /\ [][DutyNext]_vars

\* ------------------------------------------------------------------ NonPositiveSpec
\* As DutySpec, with set_duty called only with fractions from -2.0 to 0.
NonPositiveFractions ==
    { f32_norm(-n, DutyFracBits) : n \in 0..Pow2(DutyFracBits + 1) }

NonPositiveNext ==
    \/ \E config \in DutyConfig : Configure(config)
    \/ \E duty_pct \in NonPositiveFractions : SetDuty(duty_pct)

NonPositiveSpec == DutyInit /\ [][NonPositiveNext]_vars

\* ------------------------------------------------------------------ AllSpec
\* A Channel of each of the sixteen (speed, number) pairs, with timers of each
\* of the four timer numbers of a speed domain.
AllTimers == [configured : BOOLEAN, duty : {Some(1)}, number : 0..3]
AllFractions == {F32_0_5, F32_1_0}
AllConfig == [timer : AllTimers, duty_pct : AllFractions]

AllInit == New(Speeds, Number)

AllNext ==
    \/ \E config \in AllConfig : Configure(config)
    \/ \E duty_pct \in AllFractions : SetDuty(duty_pct)
    \/ ConfigureHw

AllSpec == AllInit /\ [][AllNext]_vars

\* ------------------------------------------------------------------ PairSpec
\* Two Channels of distinct (speed, number) pairs whose calls run concurrently:
\* a call's register accesses are made one at a time, in the call's order,
\* interleaved with the other Channel's, and a `modify` is a read of the
\* register followed later by a write of the whole register.  Here chan and
\* pin hold one value per Channel, and last holds, per Channel, the accesses
\* its call has still to make (pending), the register value its modify has
\* read (held) and the number of accesses made (done); seq is the register
\* block had every call so far run alone and whole, in the order the calls
\* began; mixed records that an access was made while the other Channel's
\* call was under way.
Chans == 1..2
SlotOf(self) == <<self.speed, self.number>>
Modifies == {"conf0.modify.timer_sel", "conf0.modify.para_up"}
PairTimers == [configured : BOOLEAN, duty : {Some(1)}, number : {1}]
PairFractions == {F32_0_5, F32_1_0}
PairConfig == [timer : PairTimers, duty_pct : PairFractions]

\* The register block after the one access a, h being the value a modify read.
ApplyAccess(r, a, h) ==
    CASE a.op = "hpoint.write" -> [r EXCEPT ![a.slot].hpoint = a.val]
      [] a.op = "conf0.modify.timer_sel" ->
            [r EXCEPT ![a.slot].conf0 =
                [Unwrap(h) EXCEPT !.sig_out_en = 1, !.timer_sel = a.val]]
      [] a.op = "conf1.write" ->
            [r EXCEPT ![a.slot].conf1 =
                [duty_start |-> 1, duty_inc |-> 1, duty_num |-> 1,
                 duty_cycle |-> 1, duty_scale |-> 0]]
      [] a.op = "duty.write" -> [r EXCEPT ![a.slot].duty = a.val]
      [] a.op = "conf0.modify.para_up" ->
            [r EXCEPT ![a.slot].conf0 = [Unwrap(h) EXCEPT !.para_up = 1]]
      [] OTHER -> r

\* The Channel's pin after the one access a.
ApplyPin(p, a) ==
    CASE a.op = "pin.set_to_push_pull_output" -> [p EXCEPT !.mode = "push_pull"]
      [] a.op = "pin.connect_peripheral_to_output" -> [p EXCEPT !.signal = a.sig]
      [] OTHER -> p

\* Another Channel's call has made an access and has more to make.
Overlaps(c) ==
    \E d \in Chans \ {c} : last.done[d] > 0 /\ last.pending[d] # <<>>

PairInit ==
    /\ chan \in { cs \in [Chans -> [speed : Speeds, number : {0, 7}, timer : {None}]] :
                      SlotOf(cs[1]) # SlotOf(cs[2]) }
    /\ regs = [s \in Slots |-> ResetSlot]
    /\ pin = [c \in Chans |-> [mode |-> "unset", signal |-> NoSignal]]
    /\ last = [pending |-> [c \in Chans |-> <<>>], held |-> [c \in Chans |-> None],
               done |-> [c \in Chans |-> 0], seq |-> regs, mixed |-> FALSE]
    /\ configure_called = FALSE

\* Channel c enters configure(config): the binding is stored, and the
\* accesses the call makes are still to be made.
BeginConfigure(c, config) ==
    /\ last.pending[c] = <<>>
    /\ \E r \in {configure(chan[c], HwOf(last.seq, pin[c]), config)} :
          /\ chan' = [chan EXCEPT ![c] = r.self]
          /\ last' = [last EXCEPT !.pending[c] = r.hw.log, !.done[c] = 0,
                                  !.seq = r.hw.regs]
    /\ configure_called' = TRUE
    /\ UNCHANGED <<regs, pin>>

\* Channel c enters set_duty(duty_pct).
BeginSetDuty(c, duty_pct) ==
    /\ last.pending[c] = <<>>
    /\ \E r \in {set_duty(chan[c], HwOf(last.seq, pin[c]), duty_pct)} :
          last' = [last EXCEPT !.pending[c] = r.hw.log, !.done[c] = 0,
                               !.seq = r.hw.regs]
    /\ UNCHANGED <<chan, regs, pin, configure_called>>

\* The read half of Channel c's next access, a modify.
ReadStep(c) ==
    /\ last.pending[c] # <<>>
    /\ Head(last.pending[c]).op \in Modifies
    /\ last.held[c] = None
    /\ last' = [last EXCEPT
                   !.held[c] = Some(regs[Head(last.pending[c]).slot].conf0),
                   !.mixed = @ \/ Overlaps(c)]
    /\ UNCHANGED <<chan, regs, pin, configure_called>>

\* Channel c's next access: a register write, the write half of a modify, or
\* a pin operation.
WriteStep(c) ==
    /\ last.pending[c] # <<>>
    /\ Head(last.pending[c]).op \in Modifies => last.held[c] # None
    /\ regs' = ApplyAccess(regs, Head(last.pending[c]), last.held[c])
    /\ pin' = [pin EXCEPT ![c] = ApplyPin(@, Head(last.pending[c]))]
    /\ last' = [last EXCEPT !.pending[c] = Tail(@), !.held[c] = None,
                            !.done[c] = @ + 1, !.mixed = @ \/ Overlaps(c)]
    /\ UNCHANGED <<chan, configure_called>>

PairNext ==
    \/ \E c \in Chans, config \in PairConfig : BeginConfigure(c, config)
    \/ \E c \in Chans, duty_pct \in PairFractions : BeginSetDuty(c, duty_pct)
    \/ \E c \in Chans : ReadStep(c)
    \/ \E c \in Chans : WriteStep(c)

PairSpec == PairInit /\ [][PairNext]_vars

\* ------------------------------------------------------------------ claims
\* The slot of the Channel and the resolution of its bound timer.
OwnSlot == <<chan.speed, chan.number>>
Bound == chan.timer # None
BoundTimer == Unwrap(chan.timer)
HasResolution == Bound /\ BoundTimer.duty # None
Resolution == Unwrap(BoundTimer.duty)

\* The positions in the last call's log of the accesses with operation op.
At(op) == { i \in 1..Len(last.log) : last.log[i].op = op }
RegisterWrites == {"hpoint.write", "conf0.modify.timer_sel", "conf1.write", "duty.write"}
NothingDone == last.log = <<>> /\ last.handed = <<>>

\* C1: a Channel has no timer binding exactly as long as configure was never
\* called on it; set_duty on such a Channel returns the Channel error and
\* accesses no register; a set_duty that returned success ran with a timer
\* bound that reports a resolution.
C1_SetDutyNeedsBinding ==
    /\ Bound <=> configure_called
    /\ (last.op = "set_duty" /\ ~Bound) =>
           (last.res = ErrChannel /\ NothingDone /\ regs = [s \in Slots |-> ResetSlot])
    /\ (last.op = "set_duty" /\ last.res = Ok) => HasResolution

C1_Witness ==
    last.op = "set_duty" /\ ~configure_called /\ last.res = ErrChannel

\* C3 as stated: every duty value handed to set_duty_hw is strictly greater
\* than 0 and strictly less than 2^R, R the bound timer's resolution.
C3_StrictlyBelowRange ==
    \A i \in 1..Len(last.handed) :
        0 < last.handed[i] /\ last.handed[i] < Pow2(Resolution)

\* C3 as amended: every duty value handed to set_duty_hw is strictly greater
\* than 0 and at most 2^R; a set_duty call hands over 2^R itself exactly when
\* its fraction is 1.0, and a value below 2^R for every other accepted fraction.
C3_WithinRange ==
    [][ /\ \A i \in 1..Len(last'.handed) :
               0 < last'.handed[i] /\ last'.handed[i] <= Pow2(Resolution')
        /\ \A f \in DutyFractions :
               (last'.op = "set_duty" /\ last'.res = Ok /\ SetDuty(f)) =>
                   (last'.handed = << Pow2(Resolution) >> <=> f = F32_1_0)
      ]_vars

C3_Witness ==
    /\ last.op = "set_duty" /\ last.res = Ok
    /\ last.handed = << Pow2(Resolution) >>

\* C4: on a LowSpeed channel a successful configure_hw writes para_up once,
\* after the hpoint, conf0 (selection) and conf1 (ramp) writes of the call, and
\* in a successful configure also after the duty register write.
C4_CommitAfterRegisterWrites ==
    (chan.speed = LowSpeed /\ last.op \in {"configure", "configure_hw"} /\ last.res = Ok) =>
        /\ Cardinality(At("conf0.modify.para_up")) = 1
        /\ \A op \in {"hpoint.write", "conf0.modify.timer_sel", "conf1.write"} :
               At(op) # {}
        /\ last.op = "configure" => At("duty.write") # {}
        /\ \A i \in 1..Len(last.log) :
               last.log[i].op \in RegisterWrites =>
                   \A j \in At("conf0.modify.para_up") : i < j
        /\ \A j \in At("conf0.modify.para_up") : last.log[j].slot = OwnSlot
        /\ regs[OwnSlot].conf0.para_up = 1

C4_Witness ==
    /\ chan.speed = LowSpeed /\ last.op = "configure" /\ last.res = Ok
    /\ At("duty.write") # {} /\ At("conf0.modify.para_up") # {}

\* C5: on a HighSpeed channel no call ever writes para_up: no such access is
\* in any call's log and no slot's para_up bit is set.
C5_HighSpeedNeverCommits ==
    chan.speed = HighSpeed =>
        /\ At("conf0.modify.para_up") = {}
        /\ \A s \in Slots : regs[s].conf0.para_up = 0

C5_Witness ==
    /\ chan.speed = HighSpeed /\ last.op = "configure" /\ last.res = Ok
    /\ regs[OwnSlot].conf0.sig_out_en = 1

\* C2 as stated: configure with a timer whose is_configured() is false returns
\* the Timer error whatever the fraction, the Channel records that timer, and
\* the set_duty call that follows does not return the Channel error.
C2_AlwaysTimerError ==
    [][ /\ (last'.op = "configure" /\ ~Unwrap(last'.timer).configured) =>
               (last'.res = ErrTimer /\ chan'.timer = last'.timer)
        /\ (last.op = "configure" /\ ~Unwrap(last.timer).configured
               /\ last'.op = "set_duty") =>
               last'.res # ErrChannel
      ]_vars

\* C2 as amended: configure with a timer whose is_configured() is false never
\* succeeds: it returns the Timer error, except that it returns the Duty error
\* when the timer reports a resolution and set_duty rejects the fraction for
\* it; either way the Channel records that timer, and the set_duty call that
\* follows consults it: it returns Timer exactly when that timer reports no
\* resolution, and never Channel.
C2_TimerOrDutyError ==
    [][ /\ (last'.op = "configure" /\ ~Unwrap(last'.timer).configured) =>
               /\ last'.res \in {ErrTimer, ErrDuty}
               /\ Unwrap(last'.timer).duty = None => last'.res = ErrTimer
               /\ last'.res = ErrDuty => last'.handed = <<>>
               /\ (last'.res = ErrTimer /\ Unwrap(last'.timer).duty # None)
                      => Len(last'.handed) = 1
               /\ chan'.timer = last'.timer
        /\ (last.op = "configure" /\ ~Unwrap(last.timer).configured
               /\ last'.op = "set_duty") =>
               /\ last'.res # ErrChannel
               /\ last'.res = ErrTimer <=> Unwrap(last.timer).duty = None
               /\ chan'.timer = last.timer
      ]_vars

C2_Witness ==
    /\ last.op = "configure" /\ ~Unwrap(last.timer).configured
    /\ last.res = ErrDuty /\ chan.timer = last.timer

\* C6: a configure call that returns an error has accessed no register and
\* no pin.
C6_ErrorMeansNothingWritten ==
    (last.op = "configure" /\ last.res # Ok) => NothingDone

\* floor(2^R * f) for a finite f = num * 2^-exp > 0.
FloorScaled(R, f) ==
    IF f.exp >= R THEN f.num \div Pow2(f.exp - R) ELSE f.num * Pow2(R - f.exp)
Positive(f) == f.cls = "fin" /\ f.num > 0
AboveOne(f) == f.cls = "fin" /\ f.num > Pow2(f.exp)

\* C7: set_duty with a fraction f > 0 on a channel bound to a timer of
\* resolution R returns Duty and writes nothing when f > 1.0 or
\* floor(2^R * f) = 0; otherwise it hands floor(2^R * f) to set_duty_hw and
\* writes it, shifted, to the duty register.  R=8, f=0.5 gives 128; R=4,
\* f=0.01 gives Duty.
C7_DutyIsFloor ==
    [][ \A f \in DutyFractions :
          (last'.op = "set_duty" /\ HasResolution /\ Positive(f) /\ SetDuty(f)) =>
              LET v == FloorScaled(Resolution, f) IN
              /\ IF AboveOne(f) \/ v = 0
                 THEN last'.res = ErrDuty /\ last'.log = <<>> /\ last'.handed = <<>>
                      /\ regs' = regs
                 ELSE /\ last'.res = Ok /\ last'.handed = <<v>>
                      /\ Len(last'.log) = 1 /\ last'.log[1].op = "duty.write"
                      /\ regs'[OwnSlot].duty = v * 16
              /\ (Resolution = 8 /\ f = F32_0_5) => last'.handed = <<128>>
              /\ (Resolution = 4 /\ f = F32_0_01) => last'.res = ErrDuty
      ]_vars

C7_Witness ==
    /\ last.op = "set_duty" /\ last.res = Ok
    /\ HasResolution /\ Resolution = 8 /\ last.handed = <<128>>
    /\ regs[OwnSlot].duty = 2048

\* C8: a set_duty call repeated with the same fraction, the binding unchanged,
\* returns the same result, hands over the same duty value, makes the same
\* register write and leaves the registers as the first call left them.
C8_SetDutyIdempotent ==
    [][ \A f \in Fractions :
          (last'.op = "set_duty" /\ SetDuty(f)) =>
              LET again == set_duty(chan', HwOf(regs', pin'), f) IN
              /\ again.res = last'.res
              /\ again.hw.handed = last'.handed
              /\ again.hw.log = last'.log
              /\ again.hw.regs = regs'
              /\ again.hw.pin = pin'
      ]_vars

C8_Witness ==
    /\ last.op = "set_duty" /\ last.res = Ok /\ Len(last.log) = 1
    /\ regs[OwnSlot].duty = last.log[1].val /\ regs[OwnSlot].duty > 0

\* C9: after every configure call, whatever it returns, the bound timer is the
\* timer passed to the call; no call changes the channel's number or speed
\* domain.
C9_BindingStoredNeverRolledBack ==
    [][ /\ last'.op = "configure" =>
               (chan'.timer = last'.timer /\ last'.res \in {Ok, ErrDuty, ErrTimer})
        /\ chan'.number = chan.number
        /\ chan'.speed = chan.speed
      ]_vars

C9_Witness ==
    /\ last.op = "configure" /\ last.res = ErrDuty
    /\ chan.timer = last.timer /\ regs[OwnSlot] # ResetSlot

\* C10 as stated: on a LowSpeed channel the para_up write of a successful
\* configure_hw comes after the pin connection and is the call's last access.
C10_CommitIsLast ==
    (chan.speed = LowSpeed /\ last.op = "configure_hw" /\ last.res = Ok) =>
        /\ last.log[Len(last.log)].op = "conf0.modify.para_up"
        /\ \A i \in At("pin.connect_peripheral_to_output") :
               \A j \in At("conf0.modify.para_up") : i < j

\* C10 as amended: on a LowSpeed channel the para_up write of a successful
\* configure_hw comes after the three channel register writes and before the
\* pin connection, which is the call's last access.
C10_CommitBeforeConnect ==
    (chan.speed = LowSpeed /\ last.op = "configure_hw" /\ last.res = Ok) =>
        /\ Len(last.log) = 6
        /\ last.log[5].op = "conf0.modify.para_up"
        /\ last.log[6].op = "pin.connect_peripheral_to_output"
        /\ \A i \in 2..4 : last.log[i].op \in RegisterWrites

C10_Witness ==
    /\ chan.speed = LowSpeed /\ last.op = "configure_hw" /\ last.res = Ok
    /\ pin.signal = LEDC_LS_SIG(chan.number)
\* C11: on a LowSpeed channel every call that writes a channel register
\* writes para_up after it, before it returns.
C11_LowSpeedWritesAreCommitted ==
    chan.speed = LowSpeed =>
        \A i \in 1..Len(last.log) :
            last.log[i].op \in RegisterWrites =>
                \E j \in At("conf0.modify.para_up") : i < j

\* The operations of the last call's log, the commit left out.
OpsWithoutCommit ==
    [ i \in 1..Len(SelectSeq(last.log, LAMBDA a : a.op # "conf0.modify.para_up")) |->
        SelectSeq(last.log, LAMBDA a : a.op # "conf0.modify.para_up")[i].op ]

\* C12 as stated: a successful configure_hw, in either speed domain, sets the
\* pin to push-pull output, then programs the selection register, then
\* hpoint, then the ramp register, then connects the pin.
C12_SelectionBeforeHpoint ==
    (last.op = "configure_hw" /\ last.res = Ok) =>
        OpsWithoutCommit = << "pin.set_to_push_pull_output", "conf0.modify.timer_sel",
                              "hpoint.write", "conf1.write",
                              "pin.connect_peripheral_to_output" >>

\* C12 as amended: a successful configure_hw, in either speed domain, sets the
\* pin to push-pull output, then programs hpoint, then the selection register,
\* then the ramp register, then connects the pin.
C12_HpointBeforeSelection ==
    (last.op = "configure_hw" /\ last.res = Ok) =>
        OpsWithoutCommit = << "pin.set_to_push_pull_output", "hpoint.write",
                              "conf0.modify.timer_sel", "conf1.write",
                              "pin.connect_peripheral_to_output" >>

C12_Witness ==
    /\ chan.speed = HighSpeed /\ last.op = "configure_hw" /\ last.res = Ok
    /\ Len(last.log) = 5 /\ pin.mode = "push_pull"

\* set_duty is to reject f at resolution R: f is NaN, not positive, above 1.0,
\* or 2^R * f is below 1.
Rejects(R, f) == ~Positive(f) \/ AboveOne(f) \/ FloorScaled(R, f) = 0

\* C13: set_duty returns Channel when no timer is bound; else Timer when the
\* bound timer reports no resolution, whatever the fraction; else Duty exactly
\* when the fraction is invalid, and success otherwise.  A failing call
\* accesses nothing; a successful one makes the one duty register write.
C13_SetDutyFailureOrder ==
    [][ last'.op = "set_duty" =>
          /\ ~Bound => last'.res = ErrChannel
          /\ (Bound /\ ~HasResolution) => last'.res = ErrTimer
          /\ last'.res # Ok =>
                 (last'.log = <<>> /\ last'.handed = <<>> /\ regs' = regs /\ pin' = pin)
          /\ last'.res = Ok =>
                 (Len(last'.log) = 1 /\ last'.log[1].op = "duty.write")
          /\ \A f \in Fractions :
                 (HasResolution /\ SetDuty(f)) =>
                     last'.res = IF Rejects(Resolution, f) THEN ErrDuty ELSE Ok
      ]_vars

C13_Witness ==
    /\ last.op = "set_duty" /\ last.res = ErrTimer
    /\ Bound /\ ~HasResolution /\ last.log = <<>>

\* C14: configure_hw returns the Timer error, having accessed nothing, exactly
\* when no timer is bound or the bound timer's is_configured() is false; in
\* every other case it makes all of its accesses and returns success.
C14_ConfigureHwFailsOnlyUnconfigured ==
    last.op = "configure_hw" =>
        /\ last.res \in {Ok, ErrTimer}
        /\ last.res = ErrTimer <=> (~Bound \/ ~BoundTimer.configured)
        /\ last.res = ErrTimer => NothingDone
        /\ last.res = Ok =>
               /\ \A op \in {"pin.set_to_push_pull_output", "hpoint.write",
                             "conf0.modify.timer_sel", "conf1.write",
                             "pin.connect_peripheral_to_output"} :
                      Cardinality(At(op)) = 1
               /\ Len(last.log) = IF chan.speed = LowSpeed THEN 6 ELSE 5
               /\ regs[OwnSlot].conf0.sig_out_en = 1
               /\ pin.mode = "push_pull" /\ pin.signal # NoSignal

C14_Witness ==
    /\ last.op = "configure_hw" /\ last.res = ErrTimer
    /\ Bound /\ ~BoundTimer.configured /\ regs[OwnSlot].duty # 0
\* C15: after a successful configure of the Channel of any of the sixteen
\* (speed, number) pairs with timer t, the Channel's own slot has the output
\* signal enabled, the timer selector t.get_number(), hpoint 0, the ramp
\* parameters 1, 1, 1, 1 and scale 0, and the pin is connected to the signal
\* of that speed and number.
C15_ConfiguredSlot ==
    (last.op = "configure" /\ last.res = Ok) =>
        /\ regs[OwnSlot].conf0.sig_out_en = 1
        /\ regs[OwnSlot].conf0.timer_sel = Unwrap(last.timer).number
        /\ regs[OwnSlot].hpoint = 0
        /\ regs[OwnSlot].conf1 = [duty_start |-> 1, duty_inc |-> 1, duty_num |-> 1,
                                  duty_cycle |-> 1, duty_scale |-> 0]
        /\ pin.signal = << IF chan.speed = HighSpeed THEN "LEDC_HS_SIG" ELSE "LEDC_LS_SIG",
                           chan.number >>

C15_Witness ==
    /\ last.op = "configure" /\ last.res = Ok
    /\ OwnSlot = <<HighSpeed, 5>>
    /\ regs[OwnSlot].conf0.timer_sel = 3
    /\ pin.signal = <<"LEDC_HS_SIG", 5>>
\* C16: the accesses of a configure or set_duty call of a Channel are all to
\* the Channel's own slot and the slots of no Channel stay as they were, so
\* with the calls of two Channels of distinct pairs interleaved access by
\* access, the slot of a Channel whose calls are all complete is as it would be
\* had the calls run whole, one after the other.
C16_DisjointSlots ==
    /\ \A c \in Chans : \A i \in DOMAIN last.pending[c] :
           last.pending[c][i].slot = SlotOf(chan[c])
    /\ \A s \in Slots \ { SlotOf(chan[c]) : c \in Chans } : regs[s] = ResetSlot
    /\ \A c \in Chans :
           last.pending[c] = <<>> => regs[SlotOf(chan[c])] = last.seq[SlotOf(chan[c])]
    /\ (\A c \in Chans : last.pending[c] = <<>>) => regs = last.seq

C16_Witness ==
    /\ \A c \in Chans : last.pending[c] = <<>> /\ last.done[c] >= 6
    /\ last.mixed
    /\ \A c \in Chans : regs[SlotOf(chan[c])].conf0.sig_out_en = 1
    /\ regs[SlotOf(chan[1])].duty # regs[SlotOf(chan[2])].duty
    /\ chan[1].speed = LowSpeed /\ chan[2].speed = LowSpeed
\* C17: a set_duty call leaves the Channel (binding, number, speed), the pin
\* and every register field but the duty register of the Channel's own slot
\* as they were, para_up included; a successful call hands set_duty_hw
\* floor(2^R * f), R the resolution of the timer bound when it is called, and
\* the duty register holds that value shifted.
C17_SetDutyFrame ==
    [][ last'.op = "set_duty" =>
          /\ chan' = chan /\ pin' = pin
          /\ \A s \in Slots \ {OwnSlot} : regs'[s] = regs[s]
          /\ regs'[OwnSlot] = [regs[OwnSlot] EXCEPT !.duty = regs'[OwnSlot].duty]
          /\ last'.res # Ok => regs'[OwnSlot].duty = regs[OwnSlot].duty
          /\ \A f \in Fractions :
                 (last'.res = Ok /\ SetDuty(f)) =>
                     /\ last'.handed = << FloorScaled(Resolution, f) >>
                     /\ regs'[OwnSlot].duty = 16 * FloorScaled(Resolution, f)
      ]_vars

C17_Witness ==
    /\ last.op = "set_duty" /\ last.res = Ok
    /\ chan.speed = LowSpeed /\ regs[OwnSlot].conf0.para_up = 1
    /\ HasResolution /\ Resolution = 2 /\ last.handed = <<2>>
    /\ regs[OwnSlot].duty = 32

\* C18: the value v handed to set_duty_hw is written to the duty register of
\* the Channel's slot as v * 16, a u32 value whose low four bits are zero and
\* which shifted right by four is v.
C18_DutyShiftedByFour ==
    /\ Len(last.handed) = Cardinality(At("duty.write"))
    /\ \A i \in At("duty.write") :
          /\ last.handed # <<>>
          /\ last.log[i].val = last.handed[Len(last.handed)] * 16
          /\ last.log[i].val % 16 = 0
          /\ last.log[i].val \div 16 = last.handed[Len(last.handed)]
          /\ last.log[i].val \div 16 < Pow2(28)
          /\ last.log[i].slot = OwnSlot
          /\ regs[OwnSlot].duty = last.log[i].val

C18_Witness ==
    /\ last.op = "set_duty" /\ last.res = Ok
    /\ last.handed = <<3>> /\ At("duty.write") = {1}
    /\ last.log[1].val = 48 /\ regs[OwnSlot].duty = 48

\* C19 as stated: once the slot has been programmed, its timer selector is the
\* number of the timer the Channel is bound to.
C19_SelectorIsBoundTimer ==
    regs[OwnSlot].conf0.sig_out_en = 1 =>
        (Bound /\ regs[OwnSlot].conf0.timer_sel = BoundTimer.number)

\* C19 as amended: a successful configure or configure_hw leaves the timer
\* selector of the slot equal to the number of the bound timer; every other
\* call, a failing configure that binds another timer among them, leaves the
\* selector and the output enable as they were.
C19_SelectorIsLastProgrammedTimer ==
    [][ IF last'.op \in {"configure", "configure_hw"} /\ last'.res = Ok
        THEN /\ regs'[OwnSlot].conf0.sig_out_en = 1
             /\ chan'.timer # None
             /\ regs'[OwnSlot].conf0.timer_sel = Unwrap(chan'.timer).number
        ELSE /\ regs'[OwnSlot].conf0.timer_sel = regs[OwnSlot].conf0.timer_sel
             /\ regs'[OwnSlot].conf0.sig_out_en = regs[OwnSlot].conf0.sig_out_en
             /\ last'.op = "configure" => chan'.timer = last'.timer
      ]_vars

C19_Witness ==
    /\ last.op = "configure" /\ last.res = ErrTimer
    /\ regs[OwnSlot].conf0.sig_out_en = 1
    /\ Bound /\ regs[OwnSlot].conf0.timer_sel # BoundTimer.number

\* C20: set_duty with a fraction f <= 0 on a Channel bound to a configured
\* timer of any resolution returns Duty, hands no value to set_duty_hw and
\* accesses and changes no register.
C20_NonPositiveRejected ==
    [][ \A f \in NonPositiveFractions :
          (last'.op = "set_duty" /\ HasResolution /\ BoundTimer.configured /\ SetDuty(f)) =>
              /\ last'.res = ErrDuty
              /\ last'.log = <<>> /\ last'.handed = <<>>
              /\ regs' = regs
      ]_vars

C20_Witness ==
    /\ last.op = "set_duty" /\ last.res = ErrDuty
    /\ HasResolution /\ Resolution = 8 /\ BoundTimer.configured
    /\ regs[OwnSlot].duty = 2048 /\ last.log = <<>>
====
